---- MODULE Spec2Model ----
(***************************************************************************)
(* A model of the OptACC autotuner (tuner.py, methods/RSM.py).             *)
(*                                                                         *)
(*   Spec            one run of tune(): the objective's bound check, the   *)
(*                   live compile/run/measure harness, the replay harness, *)
(*                   the T-test heuristic and a caching search strategy.   *)
(*   SpecGrid        the grid generator of _tune_RSM driven by the loop of *)
(*                   _RSM_search.                                          *)
(*   SpecPercentile  the percentile closure of load_testing_data.          *)
(*                                                                         *)
(* Numbers.  A timing is a small positive integer (such values and their   *)
(* sums are exact in binary floating point).  An average is the exact      *)
(* rational <<numerator, denominator>>.  A standard deviation is held as   *)
(* its square, again an exact rational: it is zero exactly when the        *)
(* numerator is zero.  Python's None is NoValue for a number and the       *)
(* string None for an error message; the empty string "" is Python's ''.   *)
(***************************************************************************)
EXTENDS Integers, Sequences, FiniteSets, TLC

\* ---------------------------------------------------------------- bounds
MaxReps == 3        \* opts.repetitions ranges over 1..MaxReps
MaxRequests == 2    \* evaluate requests one strategy run issues
MaxData == 3        \* rows of the dataset percentile ranks against
MaxPctTime == 3     \* the dataset's times range over 1..MaxPctTime

Times == {1, 2}     \* timings a run of the executable may print

\* ------------------------------------------------------- values and types
None == "None"
NoValue == <<>>
NoPoint == <<>>

Point(g, v) == <<g, v>>

TestResult(point, average, stdev, error) ==
    [point |-> point, average |-> average, stdev |-> stdev, error |-> error]

\* the local "result = None" of fn
NoResult == TestResult(NoPoint, NoValue, NoValue, "unset")

Float(n) == <<n, 1>>
FloatSq(n) == <<n * n, 1>>
IsZero(q) == q # NoValue /\ q[1] = 0

RECURSIVE Sum(_)
Sum(s) == IF s = <<>> THEN 0 ELSE Head(s) + Sum(Tail(s))

RECURSIVE SumSq(_)
SumSq(s) == IF s = <<>> THEN 0 ELSE Head(s) * Head(s) + SumSq(Tail(s))

METHODS == {"nelder-mead", "exhaustive-pow2", "exhaustive32",
            "exhaustive64", "exhaustive128", "exhaustive256"}

\* line 317
KnownMethodMut(m) == TRUE
KnownMethod(m) == m \in METHODS

\* the three probes of run_heuristic
ProbeI == Point(256, 128)
ProbeG == Point(1024, 128)
ProbeV == Point(256, 1024)
Probes == <<ProbeI, ProbeG, ProbeV>>

\* the points a strategy may ask for: the simplex's start and a point
\* beyond the default maxima
StrategyPoints == {Point(256, 128), Point(2048, 64)}

AllPoints == {ProbeI, ProbeG, ProbeV} \cup StrategyPoints

VARIABLES
    opts,          \* the TuningOptions object (its bounds are mutable)
    opts0,         \* history: opts as constructed
    rows,          \* the rows of the CSV file named by opts.source
    csv_data,      \* replay mode: the dictionary load_testing_data builds
    pc,            \* position in tune()
    x,             \* objective/fn: the point under evaluation
    fpc,           \* position in objective/fn: idle, compile, run, ret
    crc,           \* fn: return_code of the compile command (line 122)
    return_code,   \* fn: return_code of the last run (line 136)
    match,         \* fn: the timing match of the last run, <<>> or <<t>>
    results,       \* fn: the timings collected so far
    result,        \* fn: the TestResult being returned
    ncompile,      \* history, per call: compile commands issued
    nexec,         \* history, per call: runs of the executable (loop index)
    logged,        \* history, per call: timings given to log_run
    nadd,          \* history, per call: results given to output_writer.add
    probes,        \* run_heuristic: the results i, g, v obtained so far
    gate,          \* run_heuristic: locals and return value
    tests,         \* the strategy's cache, Point -> TestResult
    nreq,          \* requests the strategy has issued
    evals,         \* history: times run_test ran, per point
    written,       \* output_writer.write_result was called
    mul,           \* _tune_RSM: the granularity
    points,        \* _RSM_search: the generator, as the points it holds
    yielded,       \* history: the points the loop drew from it, in order
    iterations,    \* _RSM_search: iterations
    sdata,         \* load_testing_data: the times of sdata, in order
    pcts           \* history: percentile(time) for the times asked

callvars == <<x, fpc, crc, return_code, match, results, result,
              ncompile, nexec, logged, nadd>>
tunevars == <<opts0, rows, csv_data, pc, probes, gate, tests, nreq, evals,
              written>>
gridvars == <<mul, points, yielded, iterations>>
pctvars == <<sdata, pcts>>
vars == <<opts, callvars, tunevars, gridvars, pctvars>>

\* ------------------------------------------------------------ TuningOptions
TuningOptions(source, search_method, use_heuristic, repetitions, ignore_exit, kernel_timing, gangs, vectors) ==
    [source |-> source, search_method |-> search_method,
     use_heuristic |-> use_heuristic, repetitions |-> repetitions,
     ignore_exit |-> ignore_exit, kernel_timing |-> kernel_timing,
     num_gangs_min |-> gangs[1], num_gangs_max |-> gangs[2],
     vector_length_min |-> vectors[1], vector_length_max |-> vectors[2]]

IsCsv(source) == source = "data.csv"

\* ------------------------------------------------------- replay: the data
RECURSIVE load_testing_data(_)
load_testing_data(rs) ==
    IF rs = <<>> THEN <<>>
    ELSE LET n == Len(rs)
             row == rs[n]
             key == Point(row.num_gangs, row.vector_length)
             values == [time |-> Float(row.time),
                        stdev |-> FloatSq(row.stdev),
                        errormsg |-> row.errormsg]
         IN  (key :> values) @@ load_testing_data(SubSeq(rs, 1, n - 1))

\* gen_testing_function.fn
TestingFn(p) ==
    IF p \notin DOMAIN csv_data
    THEN TestResult(p, NoValue, NoValue, "not in CSV data")
    ELSE IF csv_data[p].errormsg # None
    THEN TestResult(p, NoValue, NoValue, csv_data[p].errormsg)
    ELSE TestResult(p, csv_data[p].time, csv_data[p].stdev, None)

\* ------------------------------------------------------- live: fn's pieces
CompileFailedMut(rc) == rc < 0
CompileFailed(rc) == rc # 0

ExecFailedMut(rc, ignore_exit) == rc # 0 /\ ignore_exit
ExecFailed(rc, ignore_exit) == rc # 0 /\ ~ignore_exit

MissingError(kernel_timing) ==
    IF kernel_timing THEN "PGI kernel timing data missing"
    ELSE "Timing data missing"

\* line 134: range(repetitions) is exhausted after i turns of the loop
LoopDoneMut(i, repetitions) == i >= repetitions - 1
LoopDone(i, repetitions) == i = repetitions

\* lines 175-188: the result of a loop that ended without an error
Aggregate(p, rs) ==
    IF rs = <<>> THEN TestResult(p, NoValue, NoValue, "No points tested")
    ELSE LET n == Len(rs)
             avg == <<Sum(rs), n>>
             stdev == IF n = 1 THEN <<0, 1>>
                      ELSE <<n * SumSq(rs) - Sum(rs) * Sum(rs), n * (n - 1)>>
         IN  TestResult(p, avg, stdev, None)

\* ------------------------------------------------------- objective (tune)
InRangeMut(p, o) ==
    ~(p[1] < o.num_gangs_min \/ p[1] > o.num_gangs_max)
InRange(p, o) ==
    /\ ~(p[1] < o.num_gangs_min \/ p[1] > o.num_gangs_max)
    /\ ~(p[2] < o.vector_length_min \/ p[2] > o.vector_length_max)

\* output_writer.add(result); return result
Return(r, added) ==
    /\ result' = r
    /\ nadd' = nadd + added
    /\ fpc' = "ret"

\* objective(p), up to its first external command
Objective(p) ==
    /\ fpc = "idle"
    /\ x' = p
    /\ UNCHANGED <<crc, return_code, match, results, ncompile, nexec, logged>>
    /\ IF ~InRange(p, opts)
       THEN /\ Return(TestResult(p, NoValue, NoValue, "Point out of range"), 0)
            /\ UNCHANGED evals
       ELSE /\ evals' = [evals EXCEPT ![p] = @ + 1]
            /\ IF IsCsv(opts.source)
               THEN Return(TestingFn(p), 1)
               ELSE /\ fpc' = "compile"
                    /\ UNCHANGED <<result, nadd>>

\* the caller takes the returned result; fn's locals are gone
ResetCall ==
    /\ x' = NoPoint
    /\ fpc' = "idle"
    /\ crc' = 0
    /\ return_code' = 0
    /\ match' = <<>>
    /\ results' = <<>>
    /\ result' = NoResult
    /\ ncompile' = 0
    /\ nexec' = 0
    /\ logged' = <<>>
    /\ nadd' = 0

\* fn, lines 122-130: the compile command
Compile(rc) ==
    /\ fpc = "compile"
    /\ ncompile' = ncompile + 1
    /\ crc' = rc
    /\ IF CompileFailed(rc)
       THEN Return(TestResult(x, NoValue, NoValue, "Compile command failed"), 1)
       ELSE /\ fpc' = "run"
            /\ UNCHANGED <<result, nadd>>
    /\ UNCHANGED <<x, return_code, match, results, nexec, logged>>
    /\ UNCHANGED <<opts, tunevars, gridvars, pctvars>>

\* fn, lines 134-191: one repetition, and the aggregation after the last
Run(rc, m) ==
    /\ fpc = "run"
    /\ nexec < opts.repetitions
    /\ nexec' = nexec + 1
    /\ return_code' = rc
    /\ match' = m
    /\ IF ExecFailed(rc, opts.ignore_exit)
       THEN /\ Return(TestResult(x, NoValue, NoValue, "Executable failed"), 1)
            /\ UNCHANGED <<results, logged>>
       ELSE IF m = <<>>
       THEN /\ Return(TestResult(x, NoValue, NoValue,
                                 MissingError(opts.kernel_timing)), 1)
            /\ UNCHANGED <<results, logged>>
       ELSE /\ results' = Append(results, m[1])
            /\ logged' = Append(logged, m[1])
            /\ IF LoopDone(nexec + 1, opts.repetitions)
               THEN Return(Aggregate(x, Append(results, m[1])), 1)
               ELSE UNCHANGED <<fpc, result, nadd>>
    /\ UNCHANGED <<x, crc, ncompile>>
    /\ UNCHANGED <<opts, tunevars, gridvars, pctvars>>

\* ------------------------------------------------------------------ tune
\* tune, lines 301-324, up to the heuristic or the strategy
Tune ==
    /\ pc = "tune"
    /\ csv_data' = IF IsCsv(opts.source) THEN load_testing_data(rows) ELSE <<>>
    /\ pc' = IF ~KnownMethod(opts.search_method) THEN "unknown_method"
             ELSE IF opts.use_heuristic THEN "heuristic"
             ELSE "search"
    /\ UNCHANGED <<opts, opts0, rows, probes, gate, tests, nreq, evals, written>>
    /\ UNCHANGED <<callvars, gridvars, pctvars>>

\* run_heuristic, lines 278-280: the call of the next probe
HeuristicCall ==
    /\ pc = "heuristic"
    /\ Len(probes) < 3
    /\ Objective(Probes[Len(probes) + 1])
    /\ UNCHANGED <<opts, opts0, rows, csv_data, pc, probes, gate, tests, nreq,
                   written>>
    /\ UNCHANGED <<gridvars, pctvars>>

HeuristicRet ==
    /\ pc = "heuristic"
    /\ fpc = "ret"
    /\ probes' = Append(probes, result)
    /\ ResetCall
    /\ UNCHANGED <<opts, opts0, rows, csv_data, pc, gate, tests, nreq, evals,
                   written>>
    /\ UNCHANGED <<gridvars, pctvars>>

\* stats.is_diff_significant: what a call may do.  Given numbers it answers;
\* given a probe without statistics it may also raise.
is_diff_significant(a1, s1, n1, a2, s2, n2) ==
    LET answers == {[raised |-> FALSE, value |-> b] : b \in BOOLEAN}
    IN  IF a1 = NoValue \/ s1 = NoValue \/ a2 = NoValue \/ s2 = NoValue
        THEN answers \cup {[raised |-> TRUE, value |-> FALSE]}
        ELSE answers

\* line 283
SkipTestMut(n, i, g, v) ==
    n = 1 \/ (IsZero(i.stdev) /\ IsZero(g.stdev) /\ IsZero(v.stdev))
SkipTest(n, i, g, v) ==
    n = 1 \/ IsZero(i.stdev) \/ IsZero(g.stdev) \/ IsZero(v.stdev)

\* lines 294-295
CollapseGangsMut(o, tune_num_gangs, i) ==
    IF tune_num_gangs
    THEN [o EXCEPT !.num_gangs_min = i.point[1], !.num_gangs_max = i.point[1]]
    ELSE o
CollapseGangs(o, tune_num_gangs, i) ==
    IF ~tune_num_gangs
    THEN [o EXCEPT !.num_gangs_min = i.point[1], !.num_gangs_max = i.point[1]]
    ELSE o

\* lines 296-297
CollapseVector(o, tune_vector_length, i) ==
    IF ~tune_vector_length
    THEN [o EXCEPT !.vector_length_min = i.point[2],
                   !.vector_length_max = i.point[2]]
    ELSE o

NoGate == [nsig |-> 0, returned |-> FALSE,
           tune_num_gangs |-> TRUE, tune_vector_length |-> TRUE]

\* run_heuristic, lines 281-284: the test is skipped, or is about to run
HeuristicDecide ==
    /\ pc = "heuristic"
    /\ fpc = "idle"
    /\ Len(probes) = 3
    /\ IF SkipTest(opts.repetitions, probes[1], probes[2], probes[3])
       THEN /\ gate' = [NoGate EXCEPT !.returned = TRUE]
            /\ pc' = "gated"
       ELSE /\ pc' = "ttest_gangs"
            /\ UNCHANGED gate
    /\ UNCHANGED <<opts, opts0, rows, csv_data, probes, tests, nreq, evals,
                   written>>
    /\ UNCHANGED <<callvars, gridvars, pctvars>>

\* run_heuristic, lines 286-287: baseline against the gang probe
TestGangs ==
    /\ pc = "ttest_gangs"
    /\ LET i == probes[1]
           g == probes[2]
           n == opts.repetitions
       IN  \E a \in is_diff_significant(i.average, i.stdev, n,
                                        g.average, g.stdev, n) :
              /\ gate' = [gate EXCEPT !.nsig = 1, !.tune_num_gangs = a.value]
              /\ pc' = IF a.raised THEN "crashed" ELSE "ttest_vector"
    /\ UNCHANGED <<opts, opts0, rows, csv_data, probes, tests, nreq, evals,
                   written>>
    /\ UNCHANGED <<callvars, gridvars, pctvars>>

\* run_heuristic, lines 288-298: baseline against the vector probe, then
\* the bounds of the dimensions that need no tuning
TestVector ==
    /\ pc = "ttest_vector"
    /\ LET i == probes[1]
           v == probes[3]
           n == opts.repetitions
       IN  \E a \in is_diff_significant(i.average, i.stdev, n,
                                        v.average, v.stdev, n) :
              IF a.raised
              THEN /\ gate' = [gate EXCEPT !.nsig = 2]
                   /\ pc' = "crashed"
                   /\ UNCHANGED opts
              ELSE /\ gate' = [gate EXCEPT !.nsig = 2, !.returned = TRUE,
                                           !.tune_vector_length = a.value]
                   /\ pc' = "gated"
                   /\ opts' = CollapseVector(
                                  CollapseGangs(opts, gate.tune_num_gangs, i),
                                  a.value, i)
    /\ UNCHANGED <<opts0, rows, csv_data, probes, tests, nreq, evals, written>>
    /\ UNCHANGED <<callvars, gridvars, pctvars>>

\* tune, line 324: run_heuristic's value is dropped, the strategy starts
StartSearch ==
    /\ pc = "gated"
    /\ pc' = "search"
    /\ probes' = <<>>
    /\ gate' = NoGate
    /\ UNCHANGED <<opts, opts0, rows, csv_data, tests, nreq, evals, written>>
    /\ UNCHANGED <<callvars, gridvars, pctvars>>

\* a strategy asks for p: a cached point is answered from the cache
SearchRequest(p) ==
    /\ pc = "search"
    /\ fpc = "idle"
    /\ nreq < MaxRequests
    /\ nreq' = nreq + 1
    /\ IF p \in DOMAIN tests
       THEN UNCHANGED <<callvars, evals>>
       ELSE Objective(p)
    /\ UNCHANGED <<opts, opts0, rows, csv_data, pc, probes, gate, tests, written>>
    /\ UNCHANGED <<gridvars, pctvars>>

SearchRet ==
    /\ pc = "search"
    /\ fpc = "ret"
    /\ tests' = (x :> result) @@ tests
    /\ ResetCall
    /\ UNCHANGED <<opts, opts0, rows, csv_data, pc, probes, gate, nreq, evals,
                   written>>
    /\ UNCHANGED <<gridvars, pctvars>>

\* tune, lines 326-349: the strategy has returned, the outcome is written
Report ==
    /\ pc = "search"
    /\ fpc = "idle"
    /\ DOMAIN tests # {}
    /\ written' = TRUE
    /\ pc' = "done"
    /\ UNCHANGED <<opts, opts0, rows, csv_data, probes, gate, tests, nreq, evals>>
    /\ UNCHANGED <<callvars, gridvars, pctvars>>

\* ------------------------------------------------------------------ Init
GangBounds == {<<2, 1024>>, <<2, 512>>}
VectorBounds == {<<2, 1024>>, <<256, 1024>>}
SearchMethods == {"nelder-mead", "RSM"}

RowErrors == {None, "", "Executable failed"}

\* one row for each of the first two probes; the third is not in the file
Datasets ==
    {<<[num_gangs |-> 256, vector_length |-> 128, time |-> 2,
        stdev |-> s1, errormsg |-> e1],
       [num_gangs |-> 1024, vector_length |-> 128, time |-> 1,
        stdev |-> 1, errormsg |-> e2]>> :
       s1 \in {0, 1}, e1 \in RowErrors, e2 \in {None, ""}}

LiveOptions ==
    {TuningOptions("prog.c", sm, uh, r, ie, kt, gb, vb) :
        sm \in SearchMethods, uh \in BOOLEAN, r \in 1..MaxReps,
        ie \in BOOLEAN, kt \in BOOLEAN, gb \in GangBounds, vb \in VectorBounds}

ReplayOptions ==
    {TuningOptions("data.csv", sm, uh, r, FALSE, FALSE, gb, vb) :
        sm \in SearchMethods, uh \in BOOLEAN, r \in 1..MaxReps,
        gb \in GangBounds, vb \in VectorBounds}

CallIdle ==
    /\ x = NoPoint
    /\ fpc = "idle"
    /\ crc = 0
    /\ return_code = 0
    /\ match = <<>>
    /\ results = <<>>
    /\ result = NoResult
    /\ ncompile = 0
    /\ nexec = 0
    /\ logged = <<>>
    /\ nadd = 0

TuneIdle(at) ==
    /\ csv_data = <<>>
    /\ pc = at
    /\ probes = <<>>
    /\ gate = NoGate
    /\ tests = <<>>
    /\ nreq = 0
    /\ evals = [p \in AllPoints |-> 0]
    /\ written = FALSE

GridIdle ==
    /\ mul = 0
    /\ points = <<>>
    /\ yielded = <<>>
    /\ iterations = 0

PctIdle ==
    /\ sdata = <<>>
    /\ pcts = <<>>

Init ==
    /\ \/ opts \in LiveOptions /\ rows = <<>>
       \/ opts \in ReplayOptions /\ rows \in Datasets
    /\ opts0 = opts
    /\ TuneIdle("tune")
    /\ CallIdle
    /\ GridIdle
    /\ PctIdle

Next ==
    \/ Tune
    \/ HeuristicCall
    \/ HeuristicRet
    \/ HeuristicDecide
    \/ TestGangs
    \/ TestVector
    \/ StartSearch
    \/ \E p \in StrategyPoints : SearchRequest(p)
    \/ SearchRet
    \/ Report
    \/ \E rc \in {0, 1} : Compile(rc)
    \/ \E rc \in {0, 1}, m \in {<<>>} \cup {<<t>> : t \in Times} : Run(rc, m)

Spec == Init /\ [][Next]_vars

\* ------------------------------------------------- grid search (RSM.py)
Max(a, b) == IF a >= b THEN a ELSE b

\* int(math.ceil(a / float(b))), a and b positive
CeilDivMut(a, b) == a \div b
CeilDiv(a, b) == IF a % b = 0 THEN a \div b ELSE a \div b + 1

\* int(a / b), Python 2 integers, a and b positive
FloorDiv(a, b) == a \div b

\* lines 49-52: for vec_mult in range(vec_mult, vmax+1)
RECURSIVE InnerLoop(_, _, _, _)
InnerLoop(m, gang_mult, vec_mult, vmax) ==
    IF vec_mult > vmax THEN <<>>
    ELSE <<Point(Max(m * gang_mult, 1), Max(m * vec_mult, 1))>>
         \o InnerLoop(m, gang_mult, vec_mult + 1, vmax)

\* line 48: for gang_mult in range(gang_mult, gmax+1)
RECURSIVE OuterLoop(_, _, _, _, _)
OuterLoop(m, gang_mult, gmax, vmin, vmax) ==
    IF gang_mult > gmax THEN <<>>
    ELSE InnerLoop(m, gang_mult, vmin, vmax)
         \o OuterLoop(m, gang_mult + 1, gmax, vmin, vmax)

\* _tune_RSM.generator: the points it yields, in order
generator(o, m) ==
    LET gmin == CeilDiv(o.num_gangs_min, m)
        gmax == FloorDiv(o.num_gangs_max, m)
        vmin == CeilDiv(o.vector_length_min, m)
        vmax == FloorDiv(o.vector_length_max, m)
    IN  OuterLoop(m, gmin, gmax, vmin, vmax)

\* _tune_RSM, line 53: the generator is handed to _RSM_search
TuneRSM ==
    /\ pc = "grid_call"
    /\ points' = generator(opts, mul)
    /\ pc' = "grid_loop"
    /\ UNCHANGED <<opts, opts0, rows, csv_data, probes, gate, tests, nreq,
                   evals, written>>
    /\ UNCHANGED <<mul, yielded, iterations>>
    /\ UNCHANGED <<callvars, pctvars>>

\* _RSM_search, lines 26-29: one turn of "for pt in points"
RSMLoop ==
    /\ pc = "grid_loop"
    /\ iterations < Len(points)
    /\ iterations' = iterations + 1
    /\ yielded' = Append(yielded, points[iterations + 1])
    /\ UNCHANGED <<opts, tunevars, mul, points, callvars, pctvars>>

\* _RSM_search: the generator is exhausted
RSMEnd ==
    /\ pc = "grid_loop"
    /\ iterations = Len(points)
    /\ pc' = "grid_done"
    /\ UNCHANGED <<opts, opts0, rows, csv_data, probes, gate, tests, nreq,
                   evals, written>>
    /\ UNCHANGED <<callvars, gridvars, pctvars>>

\* [min, max] of one dimension: the defaults, ranges without a multiple of
\* some granularity, a range the heuristic collapsed, and min above max
GridRanges == {<<2, 1024>>, <<1, 31>>, <<33, 64>>, <<100, 300>>,
               <<128, 128>>, <<256, 256>>, <<600, 100>>}
Granularities == {32, 64, 128, 256}

InitGrid ==
    /\ opts \in {TuningOptions("prog.c", "RSM", FALSE, 1, FALSE, FALSE, gb, vb) :
                    gb \in GridRanges, vb \in GridRanges}
    /\ opts0 = opts
    /\ rows = <<>>
    /\ TuneIdle("grid_call")
    /\ CallIdle
    /\ mul \in Granularities
    /\ points = <<>>
    /\ yielded = <<>>
    /\ iterations = 0
    /\ PctIdle

NextGrid ==
    \/ TuneRSM
    \/ RSMLoop
    \/ RSMEnd

SpecGrid == InitGrid /\ [][NextGrid]_vars

\* ------------------------------------------- percentile (replay mode)
\* sorted(): insertion of t into a sorted sequence, and the sort
RECURSIVE Insert(_, _)
Insert(t, s) ==
    IF s = <<>> THEN <<t>>
    ELSE IF t < Head(s) THEN <<t>> \o s
    ELSE <<Head(s)>> \o Insert(t, Tail(s))

RECURSIVE sorted(_)
sorted(s) == IF s = <<>> THEN <<>> ELSE Insert(s[Len(s)], sorted(SubSeq(s, 1, Len(s) - 1)))

\* line 236
CountedMut(t, time) == t >= time
Counted(t, time) == t <= time

\* lines 234-239: the counting loop and its break
RECURSIVE CountLoop(_, _, _, _)
CountLoop(sd, i, count, time) ==
    IF i > Len(sd) THEN count
    ELSE IF Counted(sd[i], time) THEN CountLoop(sd, i + 1, count + 1, time)
    ELSE count

\* int(round(float(a) / b * 100)): halves round away from zero
RoundPercent(a, b) == (200 * a + b) \div (2 * b)

\* load_testing_data.percentile
percentile(sd, time) == RoundPercent(CountLoop(sd, 1, 0, time), Len(sd))

\* one call of percentile, for a time not asked before
Percentile(time) ==
    /\ pc = "percentile"
    /\ time \notin DOMAIN pcts
    /\ pcts' = (time :> percentile(sdata, time)) @@ pcts
    /\ UNCHANGED <<opts, tunevars, callvars, gridvars, sdata>>

InitPercentile ==
    /\ opts = TuningOptions("data.csv", "nelder-mead", FALSE, 1, FALSE, FALSE,
                            <<2, 1024>>, <<2, 1024>>)
    /\ opts0 = opts
    /\ rows = <<>>
    /\ TuneIdle("percentile")
    /\ CallIdle
    /\ GridIdle
    /\ \E n \in 1..MaxData : \E ts \in [1..n -> 1..MaxPctTime] : sdata = sorted(ts)
    /\ pcts = <<>>

NextPercentile ==
    \E time \in 0..(MaxPctTime + 1) : Percentile(time)

SpecPercentile == InitPercentile /\ [][NextPercentile]_vars

\* ------------------------------------------------------------ properties
OutOfBounds(p, o) ==
    \/ p[1] < o.num_gangs_min
    \/ p[1] > o.num_gangs_max
    \/ p[2] < o.vector_length_min
    \/ p[2] > o.vector_length_max

SameBounds(o1, o2) ==
    /\ o1.num_gangs_min = o2.num_gangs_min
    /\ o1.num_gangs_max = o2.num_gangs_max
    /\ o1.vector_length_min = o2.vector_length_min
    /\ o1.vector_length_max = o2.vector_length_max

\* C1: whenever the objective is at work on a point outside the bounds, it
\* has already returned the error 'Point out of range', and no compile
\* command, no run of the executable and no raw-run report happened for it.
C1_OutOfRangeNoProcess ==
    (fpc # "idle" /\ OutOfBounds(x, opts)) =>
        /\ fpc = "ret"
        /\ result = TestResult(x, NoValue, NoValue, "Point out of range")
        /\ ncompile = 0
        /\ nexec = 0
        /\ logged = <<>>

C1_Witness ==
    /\ fpc = "ret"
    /\ x[1] >= opts.num_gangs_min /\ x[1] <= opts.num_gangs_max
    /\ x[2] < opts.vector_length_min
    /\ result.error = "Point out of range"
    /\ ncompile = 0 /\ nexec = 0

C4_NeverEvaluatedTwice ==
    \A p \in AllPoints : evals[p] <= 1

\* C6: once the heuristic is past its three probes, if the repetition count
\* is 1 or some probe's standard deviation is exactly 0, then it has returned
\* (True, True), it neither called nor is about to call the significance
\* test, and the four bounds are as configured.
C6_GateSkipsTest ==
    (/\ pc \in {"ttest_gangs", "ttest_vector", "gated", "crashed"}
     /\ \/ opts.repetitions = 1
        \/ \E k \in 1..3 : probes[k].stdev # NoValue /\ probes[k].stdev[1] = 0)
    => /\ pc = "gated"
       /\ gate.returned
       /\ gate.tune_num_gangs /\ gate.tune_vector_length
       /\ gate.nsig = 0
       /\ SameBounds(opts, opts0)

C6_Witness ==
    /\ pc = "gated"
    /\ opts.repetitions > 1
    /\ \A k \in 1..3 : probes[k].stdev # NoValue /\ probes[k].stdev[1] = 0
    /\ probes[1].average # probes[2].average
    /\ probes[1].average # probes[3].average
    /\ gate.returned /\ gate.nsig = 0
    /\ SameBounds(opts, opts0)

\* C7: when the heuristic has returned after running the significance test,
\* a dimension whose test was not significant has both bounds at the
\* baseline probe's value (256 gangs, 128 vector length), a dimension whose
\* test was significant has its bounds as configured, and with neither
\* significant the only point in range is (256, 128).
C7_GateCollapses ==
    (pc = "gated" /\ gate.nsig = 2) =>
        /\ ~gate.tune_num_gangs =>
              opts.num_gangs_min = 256 /\ opts.num_gangs_max = 256
        /\ gate.tune_num_gangs =>
              /\ opts.num_gangs_min = opts0.num_gangs_min
              /\ opts.num_gangs_max = opts0.num_gangs_max
        /\ ~gate.tune_vector_length =>
              opts.vector_length_min = 128 /\ opts.vector_length_max = 128
        /\ gate.tune_vector_length =>
              /\ opts.vector_length_min = opts0.vector_length_min
              /\ opts.vector_length_max = opts0.vector_length_max
        /\ (~gate.tune_num_gangs /\ ~gate.tune_vector_length) =>
              \A p \in AllPoints : ~OutOfBounds(p, opts) <=> p = <<256, 128>>

C7_Witness ==
    /\ pc = "gated"
    /\ gate.nsig = 2
    /\ ~gate.tune_num_gangs
    /\ gate.tune_vector_length
    /\ opts.num_gangs_min = 256 /\ opts.num_gangs_max = 256
    /\ opts0.num_gangs_min # 256
    /\ opts.vector_length_min = opts0.vector_length_min

\* C9: a replay evaluation invokes no process and runs no repetition; a
\* point absent from the dataset gives the error 'not in CSV data', a row
\* with a non-empty error message gives that error, and a row with an empty
\* or absent error message gives the recorded mean and stdev as a success.
C9_ReplayAsRecorded ==
    (IsCsv(opts.source) /\ fpc = "ret" /\ nadd = 1) =>
        /\ ncompile = 0 /\ nexec = 0 /\ logged = <<>>
        /\ x \notin DOMAIN csv_data =>
              result = TestResult(x, NoValue, NoValue, "not in CSV data")
        /\ (x \in DOMAIN csv_data /\ csv_data[x].errormsg \notin {None, ""}) =>
              result = TestResult(x, NoValue, NoValue, csv_data[x].errormsg)
        /\ (x \in DOMAIN csv_data /\ csv_data[x].errormsg \in {None, ""}) =>
              result = TestResult(x, csv_data[x].time, csv_data[x].stdev, None)

\* C10: with a search method that is not in METHODS the run goes from the
\* entry of tune to the abort only: no point is evaluated or requested, the
\* bounds are as configured and write_result is not called.
C10_UnknownMethodAborts ==
    opts.search_method \notin METHODS =>
        /\ pc \in {"tune", "unknown_method"}
        /\ fpc = "idle"
        /\ \A p \in AllPoints : evals[p] = 0
        /\ probes = <<>>
        /\ nreq = 0 /\ tests = <<>>
        /\ SameBounds(opts, opts0)
        /\ ~written

C10_Witness ==
    /\ pc = "unknown_method"
    /\ opts.use_heuristic
    /\ opts.search_method \notin METHODS
    /\ ~written

\* the arithmetic of the claim, over the bounds of one dimension
Floor(hi) == hi \div mul
Ceil(lo) == (lo + mul - 1) \div mul
Multiples(lo, hi) == {Max(mul * m, 1) : m \in Ceil(lo)..Floor(hi)}
YieldedSet == {yielded[k] : k \in 1..Len(yielded)}

\* C5 (as amended): when the enumeration has ended, each dimension's values
\* are the max(g*m, 1) for m in ceil(min/g)..floor(max/g), which are
\* max(0, floor(max/g)-ceil(min/g)+1) distinct values, none below 1 and all
\* multiples of g within the bounds; the points yielded are every pair of
\* those values exactly once (none when a dimension has no value), and the
\* iteration count is their number; bounds [2,1024] x [2,1024] with g = 256
\* give {256,512,768,1024} x {256,512,768,1024} and 16 iterations.
C5_GridEnumeration ==
    pc = "grid_done" =>
        LET gv == Multiples(opts.num_gangs_min, opts.num_gangs_max)
            vv == Multiples(opts.vector_length_min, opts.vector_length_max)
            gn == Floor(opts.num_gangs_max) - Ceil(opts.num_gangs_min) + 1
            vn == Floor(opts.vector_length_max) - Ceil(opts.vector_length_min) + 1
        IN  /\ Cardinality(gv) = Max(gn, 0)
            /\ Cardinality(vv) = Max(vn, 0)
            /\ gv = {n \in opts.num_gangs_min..opts.num_gangs_max : n % mul = 0}
            /\ vv = {n \in opts.vector_length_min..opts.vector_length_max :
                        n % mul = 0}
            /\ YieldedSet = gv \X vv
            /\ Len(yielded) = Cardinality(gv) * Cardinality(vv)
            /\ iterations = Len(yielded)
            /\ \A k \in 1..Len(yielded) : yielded[k][1] >= 1 /\ yielded[k][2] >= 1
            /\ (/\ mul = 256
                /\ opts.num_gangs_min = 2 /\ opts.num_gangs_max = 1024
                /\ opts.vector_length_min = 2 /\ opts.vector_length_max = 1024)
               => /\ YieldedSet = {256, 512, 768, 1024} \X {256, 512, 768, 1024}
                  /\ iterations = 16

C5_Witness ==
    /\ pc = "grid_done"
    /\ mul = 256
    /\ opts.num_gangs_min = 2 /\ opts.num_gangs_max = 1024
    /\ opts.vector_length_min = 2 /\ opts.vector_length_max = 1024
    /\ iterations = 16
    /\ Cardinality(YieldedSet) = 16

\* C5 (as claimed): when the enumeration has ended, the points yielded show
\* exactly floor(max/g)-ceil(min/g)+1 distinct values in each dimension.
C5_CountAsClaimed ==
    pc = "grid_done" =>
        /\ Cardinality({p[1] : p \in YieldedSet})
              = Floor(opts.num_gangs_max) - Ceil(opts.num_gangs_min) + 1
        /\ Cardinality({p[2] : p \in YieldedSet})
              = Floor(opts.vector_length_max) - Ceil(opts.vector_length_min) + 1

\* C8 (as amended): for a fixed dataset, a strictly smaller mean never has a
\* larger percentile than a strictly larger mean, and every percentile lies
\* in 0..100.
C8_PercentileMonotone ==
    \A t1 \in DOMAIN pcts, t2 \in DOMAIN pcts :
        /\ pcts[t1] \in 0..100
        /\ t1 < t2 => pcts[t1] <= pcts[t2]

C8_Witness ==
    /\ Len(sdata) >= 2
    /\ \E t1 \in DOMAIN pcts, t2 \in DOMAIN pcts, t3 \in DOMAIN pcts :
          /\ t1 < t2 /\ t2 < t3
          /\ pcts[t1] < pcts[t2]
          /\ pcts[t2] = pcts[t3]
          /\ pcts[t1] > 0

\* C8 (as claimed): for a fixed dataset, a strictly smaller mean never has a
\* smaller or equal percentile than a strictly larger mean.
C8_PercentileAsClaimed ==
    \A t1 \in DOMAIN pcts, t2 \in DOMAIN pcts :
        t1 < t2 => ~(pcts[t1] <= pcts[t2])

\* C11: in live mode, when fn has returned, its Result is a success exactly
\* when all opts.repetitions runs happened and each produced a timing; a
\* success averages exactly those opts.repetitions timings, each of which
\* was reported to log_run; the results held by the heuristic and by the
\* strategy's cache are successes over opts.repetitions timings or errors;
\* and 'No points tested' is never the error of any Result.
C11_SuccessIffAllRuns ==
    /\ (~IsCsv(opts.source) /\ fpc = "ret" /\ ncompile = 1) =>
          /\ result.error = None <=>
                (nexec = opts.repetitions /\ Len(results) = opts.repetitions)
          /\ result.error = None =>
                /\ result.average = <<Sum(logged), opts.repetitions>>
                /\ Len(logged) = opts.repetitions
                /\ logged = results
          /\ result.error # None =>
                /\ result.average = NoValue
                /\ Len(results) < opts.repetitions
    /\ result.error # "No points tested"
    /\ ~IsCsv(opts.source) =>
          /\ \A k \in 1..Len(probes) :
                /\ probes[k].error # "No points tested"
                /\ probes[k].error = None =>
                      probes[k].average[2] = opts.repetitions
          /\ \A p \in DOMAIN tests :
                /\ tests[p].error # "No points tested"
                /\ tests[p].error = None =>
                      tests[p].average[2] = opts.repetitions

C11_Witness ==
    /\ ~IsCsv(opts.source)
    /\ fpc = "ret"
    /\ opts.repetitions > 2
    /\ opts.ignore_exit /\ return_code # 0
    /\ result.error = None
    /\ result.average = <<Sum(logged), opts.repetitions>>
    /\ ~IsZero(result.stdev)
    /\ Len(logged) = opts.repetitions
    /\ nexec = opts.repetitions

====
